---------------------------- MODULE Spec2Model ----------------------------
(***************************************************************************)
(* A model of active_bom.py: the BOM reader and row classifier, the        *)
(* DigiKey catalog client with its token and search caches on disk, the    *)
(* offer selection and the report.                                         *)
(*                                                                         *)
(* Python strings are sequences of one-character strings.  Two characters  *)
(* outside ASCII are written by name: "PM" is the plus-minus sign and      *)
(* "OHM" the ohm sign.  Python dicts are functions whose DOMAIN is the set *)
(* of keys present.  Prices are exact decimals counted in cents.           *)
(***************************************************************************)
EXTENDS Integers, Sequences, FiniteSets, TLC

VARIABLES
    now,           \* time.time(), in seconds
    ticks,         \* how many times the clock has been advanced
    token_file,    \* ~/Library/Caches/digikey/token.json: <<>> or <<token_data>>
    search_cache,  \* ~/Library/Caches/digikey/search: file name -> cache_data
    fetch_log,     \* per keyword, the last search that reached the server
    call,          \* the last call of the catalog client and what it did
    pc,            \* where main() stands
    bom,           \* the rows of the --bom file
    board_count,   \* --boards
    row,           \* parse_bom_row: the record of the row in progress, or <<>>
    data,          \* the records parse_bom has collected
    lookups,       \* per BOM line, the keywords sent to search_digikey_info
    table,         \* the rows printed on the console, or <<>> before printing
    total_price,   \* the total printed, or <<>> before printing
    sierra,        \* the rows saved to the spreadsheet, or <<>>
    error,         \* the exception that ended the run, or <<>>
    arg,           \* a function under test: its arguments
    ret            \* a function under test: its result

vars == <<now, ticks, token_file, search_cache, fetch_log, call, pc, bom, board_count,
          row, data, lookups, table, total_price, sierra, error, arg, ret>>

-----------------------------------------------------------------------------
(* Strings *)

Digit == {"0", "1", "2", "3", "4", "5", "6", "7", "8", "9"}

DigitVal == [c \in Digit |-> CASE c = "0" -> 0 [] c = "1" -> 1 [] c = "2" -> 2
                               [] c = "3" -> 3 [] c = "4" -> 4 [] c = "5" -> 5
                               [] c = "6" -> 6 [] c = "7" -> 7 [] c = "8" -> 8
                               [] c = "9" -> 9]

DigitChar == <<"0", "1", "2", "3", "4", "5", "6", "7", "8", "9">>

Min(S) == CHOOSE x \in S : \A y \in S : x <= y

\* s[i:] starts with p
StartsAt(s, i, p) ==
    /\ i + Len(p) - 1 <= Len(s)
    /\ SubSeq(s, i, i + Len(p) - 1) = p

\* Python: p in s
Contains(s, p) == \E i \in 1..(Len(s) + 1) : StartsAt(s, i, p)

\* the index after the longest run of characters of class cls starting at i
RunEnd(s, i, cls) ==
    CHOOSE j \in i..(Len(s) + 1) :
        /\ \A k \in i..(j - 1) : s[k] \in cls
        /\ j = Len(s) + 1 \/ s[j] \notin cls

\* re.search: the groups of the leftmost match of a pattern given by the
\* groups At(s, i) of its match starting at i (<<>> when none starts there);
\* <<>> stands for None
Search(s, At(_, _)) ==
    LET starts == {i \in 1..Len(s) : At(s, i) # <<>>}
    IN  IF starts = {} THEN <<>> ELSE At(s, Min(starts))

\* int(ds) for a string of decimal digits
RECURSIVE ParseInt(_)
ParseInt(ds) ==
    IF ds = <<>> THEN 0
    ELSE 10 * ParseInt(SubSeq(ds, 1, Len(ds) - 1)) + DigitVal[ds[Len(ds)]]

\* str(n) for n >= 0
RECURSIVE IntToStr(_)
IntToStr(n) ==
    IF n < 10 THEN <<DigitChar[n + 1]>>
    ELSE IntToStr(n \div 10) \o <<DigitChar[(n % 10) + 1]>>

\* a decimal number m / 10^e without trailing zeros in its fraction
RECURSIVE Decimal(_, _)
Decimal(m, e) == IF e > 0 /\ m % 10 = 0 THEN Decimal(m \div 10, e - 1) ELSE <<m, e>>

\* float(ds) for digits with at most one ".": the number it denotes
ParseFloat(ds) ==
    LET dots == {i \in 1..Len(ds) : ds[i] = "."}
    IN  IF dots = {} THEN Decimal(ParseInt(ds), 0)
        ELSE LET d == Min(dots)
                 int == SubSeq(ds, 1, d - 1)
                 frac == SubSeq(ds, d + 1, Len(ds))
             IN  Decimal(ParseInt(int \o frac), Len(frac))

\* s.split(","): the fields between the commas
RECURSIVE Split(_)
Split(s) ==
    LET commas == {i \in 1..Len(s) : s[i] = ","}
    IN  IF commas = {} THEN <<s>>
        ELSE <<SubSeq(s, 1, Min(commas) - 1)>>
                 \o Split(SubSeq(s, Min(commas) + 1, Len(s)))

\* dict.update
Update(d, e) ==
    [k \in DOMAIN d \cup DOMAIN e |-> IF k \in DOMAIN e THEN e[k] ELSE d[k]]

-----------------------------------------------------------------------------
(* The static maps *)

RESISTOR_VALUE_MAP_ERJ ==
    (<<"1", ".", "5", "k", "OHM">> :> <<"1", "5", "0", "1">>) @@ (<<"1", "0", "k", "OHM">> :> <<"1", "0", "0", "2">>) @@ (<<"1", "k", "OHM">> :> <<"1", "0", "0", "1">>)
    @@ (<<"2", "6", ".", "1", "OHM">> :> <<"2", "6", "R", "1">>) @@ (<<"4", ".", "7", "k", "OHM">> :> <<"4", "7", "0", "1">>) @@ (<<"2", "2", "0", "OHM">> :> <<"2", "2", "0", "0">>)
    @@ (<<"5", "1", "0", "OHM">> :> <<"5", "1", "0", "0">>) @@ (<<"5", ".", "6", "k", "OHM">> :> <<"5", "6", "0", "1">>) @@ (<<"1", "0", "0", "k", "OHM">> :> <<"1", "0", "0", "3">>)
    @@ (<<"6", "0", ".", "4", "OHM">> :> <<"6", "0", "R", "4">>) @@ (<<"1", ".", "2", "k", "OHM">> :> <<"1", "2", "0", "1">>) @@ (<<"1", "8", "0", "OHM">> :> <<"1", "8", "0", "0">>)

RESISTOR_FOOTPRINT_MAP_ERJ ==
    (<<"0", "4", "0", "2">> :> <<"E", "R", "J", "-", "2", "R", "K", "F">>) @@ (<<"0", "6", "0", "3">> :> <<"E", "R", "J", "-", "3", "E", "K", "F">>)

RESISTOR_FOOTPRINT_MAP_ERJ_SUFFIX ==
    (<<"0", "4", "0", "2">> :> <<"X">>) @@ (<<"0", "6", "0", "3">> :> <<"V">>)

\* the keys are (voltage, value, dielectric, tolerance, footprint); Python
\* compares the voltage as a number, so 16 and 16.0 are the same key
CAPACITOR_MAP ==
    (<<Decimal(16, 0), <<"1", "0", "0", "n", "F">>, <<"X", "7", "R">>, 10, <<"0", "4", "0", "2">>>> :> <<"G", "C", "M", "1", "5", "5", "R", "7", "1", "C", "1", "0", "4", "K", "A", "5", "5", "J">>)
    @@ (<<Decimal(50, 0), <<"2", ".", "2", "u", "F">>, <<"X", "5", "R">>, 10, <<"0", "8", "0", "5">>>> :> <<"G", "C", "M", "2", "1", "B", "R", "7", "1", "C", "2", "2", "5", "K", "A", "6", "4", "L">>)
    @@ (<<Decimal(63, 1), <<"2", ".", "2", "u", "F">>, <<"X", "5", "R">>, 20, <<"0", "4", "0", "2">>>> :> <<"G", "R", "M", "1", "5", "5", "R", "6", "1", "C", "2", "2", "5", "K", "E", "1", "1", "D">>)
    @@ (<<Decimal(50, 0), <<"1", "2", "n", "F">>, <<"X", "7", "R">>, 10, <<"0", "4", "0", "2">>>> :> <<"G", "C", "M", "1", "5", "5", "R", "7", "1", "E", "1", "2", "3", "K", "A", "5", "5", "J">>)
    @@ (<<Decimal(50, 0), <<"1", "8", "p", "F">>, <<"C", "0", "G">>, 5, <<"0", "4", "0", "2">>>> :> <<"G", "C", "M", "1", "5", "5", "5", "C", "1", "H", "1", "8", "0", "J", "A", "1", "6", "D">>)
    @@ (<<Decimal(50, 0), <<"2", "0", "p", "F">>, <<"C", "0", "G">>, 5, <<"0", "4", "0", "2">>>> :> <<"G", "C", "M", "1", "5", "5", "5", "C", "1", "H", "2", "2", "0", "J", "A", "1", "6", "J">>)
    @@ (<<Decimal(25, 0), <<"1", "u", "F">>, <<"X", "5", "R">>, 10, <<"0", "4", "0", "2">>>> :> <<"G", "R", "M", "1", "5", "5", "R", "6", "1", "E", "1", "0", "5", "K", "A", "1", "2", "D">>)
    @@ (<<Decimal(50, 0), <<"4", ".", "7", "n", "F">>, <<"X", "7", "R">>, 10, <<"0", "4", "0", "2">>>> :> <<"G", "C", "M", "1", "5", "5", "R", "7", "1", "H", "4", "7", "2", "K", "A", "3", "7", "J">>)

\* MPN_MAP with SC0914(13) sent back to C2040
MPN_MAP_cyclic ==
    (<<"C", "2", "0", "4", "0">> :> <<"R", "P", "2", "0", "4", "0">>)
    @@ (<<"R", "P", "2", "0", "4", "0">> :> <<"S", "C", "0", "9", "1", "4", "(", "1", "3", ")">>)
    @@ (<<"S", "C", "0", "9", "1", "4", "(", "1", "3", ")">> :> <<"C", "2", "0", "4", "0">>)
    @@ (<<"C", "9", "0", "0", "2">> :> <<"X", "3", "2", "2", "5", "1", "2", "M", "S", "B", "4", "S", "I">>)
    @@ (<<"C", "9", "7", "5", "2", "1">> :> <<"W", "2", "5", "Q", "1", "2", "8", "J", "V", "S", "I", "Q">>)
    @@ (<<"X", "3", "2", "2", "5", "1", "2", "M", "S", "B", "4", "S", "I">> :> <<"E", "C", "S", "-", "2", "3", "3", "3", "-", "1", "2", "0", "-", "B", "N", "-", "T", "R">>)
    @@ (<<"E", "R", "M", "8", "-", "0", "4", "0", "-", "0", "5", ".", "0", "-", "X", "-", "D", "V", "-", "L", "-", "K", "-", "T", "R">> :> <<"E", "R", "M", "8", "-", "0", "4", "0", "-", "0", "5", ".", "0", "-", "L", "-", "D", "V", "-", "L", "-", "K", "-", "T", "R">>)

MPN_MAP ==
    (<<"C", "2", "0", "4", "0">> :> <<"R", "P", "2", "0", "4", "0">>)
    @@ (<<"R", "P", "2", "0", "4", "0">> :> <<"S", "C", "0", "9", "1", "4", "(", "1", "3", ")">>)
    @@ (<<"C", "9", "0", "0", "2">> :> <<"X", "3", "2", "2", "5", "1", "2", "M", "S", "B", "4", "S", "I">>)
    @@ (<<"C", "9", "7", "5", "2", "1">> :> <<"W", "2", "5", "Q", "1", "2", "8", "J", "V", "S", "I", "Q">>)
    @@ (<<"X", "3", "2", "2", "5", "1", "2", "M", "S", "B", "4", "S", "I">> :> <<"E", "C", "S", "-", "2", "3", "3", "3", "-", "1", "2", "0", "-", "B", "N", "-", "T", "R">>)
    @@ (<<"E", "R", "M", "8", "-", "0", "4", "0", "-", "0", "5", ".", "0", "-", "X", "-", "D", "V", "-", "L", "-", "K", "-", "T", "R">> :> <<"E", "R", "M", "8", "-", "0", "4", "0", "-", "0", "5", ".", "0", "-", "L", "-", "D", "V", "-", "L", "-", "K", "-", "T", "R">>)

-----------------------------------------------------------------------------
(* Exceptions: a call either returns a value or raises *)

Return(v) == [val |-> v]

Raise(e) == [exc |-> e]

Raised(r) == "exc" \in DOMAIN r

-----------------------------------------------------------------------------
(* The comment parsers *)

\* the match of PM1% ([0-9.]+[kOHM]+) starting at i
ResistorValueAt(s, i) ==
    IF ~StartsAt(s, i, <<"PM", "1", "%", " ">>) THEN <<>>
    ELSE LET p == i + 4
             a == RunEnd(s, p, Digit \cup {"."})
             b == RunEnd(s, a, {"k", "OHM"})
         IN  IF a > p /\ b > a THEN <<SubSeq(s, p, b - 1)>> ELSE <<>>

\* the match of ([0-9]{4}) starting at i
FootprintAt(s, i) ==
    IF i + 3 <= Len(s) /\ \A k \in i..(i + 3) : s[k] \in Digit
    THEN <<SubSeq(s, i, i + 3)>>
    ELSE <<>>

\* the match of (\d+\.?\d*)(u1|u2|...) starting at i: the number, then the unit
NumberUnitAt(s, i, units) ==
    IF i > Len(s) \/ s[i] \notin Digit THEN <<>>
    ELSE LET a == RunEnd(s, i, Digit)
             b == IF a <= Len(s) /\ s[a] = "." THEN RunEnd(s, a + 1, Digit) ELSE a
             us == {u \in units : StartsAt(s, b, u)}
         IN  IF us = {} THEN <<>>
             ELSE <<SubSeq(s, i, b - 1), CHOOSE u \in us : TRUE>>

\* (\d+\.?\d*)V
VoltageAt(s, i) == NumberUnitAt(s, i, {<<"V">>})

\* (\d+\.?\d*)(pF|nF|uF)
CapValueAt(s, i) == NumberUnitAt(s, i, {<<"p", "F">>, <<"n", "F">>, <<"u", "F">>})

\* (X7R|X5R|C0G)
CapTypeAt(s, i) ==
    LET ts == {t \in {<<"X", "7", "R">>, <<"X", "5", "R">>, <<"C", "0", "G">>} : StartsAt(s, i, t)}
    IN  IF ts = {} THEN <<>> ELSE <<CHOOSE t \in ts : TRUE>>

\* PM(\d+)%
ToleranceAt(s, i) ==
    IF ~StartsAt(s, i, <<"PM">>) THEN <<>>
    ELSE LET a == RunEnd(s, i + 1, Digit)
         IN  IF a > i + 1 /\ StartsAt(s, a, <<"%">>)
             THEN <<SubSeq(s, i + 1, a - 1)>>
             ELSE <<>>

\* erj_mpn with the value code and the suffix in each other's place
erj_mpn_suffix_first(value, footprint) ==
    IF value \notin DOMAIN RESISTOR_VALUE_MAP_ERJ THEN Raise("KeyError")
    ELSE IF footprint \notin DOMAIN RESISTOR_FOOTPRINT_MAP_ERJ THEN Raise("KeyError")
    ELSE Return(RESISTOR_FOOTPRINT_MAP_ERJ[footprint]
                    \o RESISTOR_FOOTPRINT_MAP_ERJ_SUFFIX[footprint]
                    \o RESISTOR_VALUE_MAP_ERJ[value])

erj_mpn(value, footprint) ==
    IF value \notin DOMAIN RESISTOR_VALUE_MAP_ERJ THEN Raise("KeyError")
    ELSE IF footprint \notin DOMAIN RESISTOR_FOOTPRINT_MAP_ERJ THEN Raise("KeyError")
    ELSE IF footprint \notin DOMAIN RESISTOR_FOOTPRINT_MAP_ERJ_SUFFIX THEN Raise("KeyError")
    ELSE Return(RESISTOR_FOOTPRINT_MAP_ERJ[footprint]
                    \o RESISTOR_VALUE_MAP_ERJ[value]
                    \o RESISTOR_FOOTPRINT_MAP_ERJ_SUFFIX[footprint])

parse_resistor_comment(comment) ==
    LET value_match == Search(comment, ResistorValueAt)
        footprint_match == Search(comment, FootprintAt)
    IN  IF value_match # <<>> /\ footprint_match # <<>>
        THEN LET value == value_match[1]
                 footprint == footprint_match[1]
                 mpn == erj_mpn(value, footprint)
             IN  IF Raised(mpn) THEN mpn
                 ELSE Return([mpn |-> mpn.val,
                              value |-> value,
                              footprint |-> footprint,
                              description |-> value \o <<" ", "PM", "1", "%", " ">> \o footprint
                                  \o <<" ", "t", "h", "i", "c", "k", " ", "f", "i", "l", "m", " ", "r", "e", "s", "i", "s", "t", "o", "r", " ", "0", ".", "1", "W", " ", "5", "0", "V", " ", "PM", "1", "0", "0", "p", "p", "m", "/", "C">>,
                              vendor |-> <<"D", "i", "g", "i", "K", "e", "y">>,
                              manufacturer |-> <<"P", "a", "n", "a", "s", "o", "n", "i", "c", " ", "E", "l", "e", "c", "t", "r", "o", "n", "i", "c", " ", "C", "o", "m", "p", "o", "n", "e", "n", "t", "s">>])
        ELSE Raise("ValueError: Invalid resistor comment")

parse_capacitor_comment(comment) ==
    LET voltage_match == Search(comment, VoltageAt)
        value_match == Search(comment, CapValueAt)
        type_match == Search(comment, CapTypeAt)
        tolerance_match == Search(comment, ToleranceAt)
        footprint_match == Search(comment, FootprintAt)
    IN  IF /\ voltage_match # <<>>
           /\ value_match # <<>>
           /\ type_match # <<>>
           /\ tolerance_match # <<>>
           /\ footprint_match # <<>>
        THEN LET voltage == ParseFloat(voltage_match[1])
                 value == value_match[1] \o value_match[2]
                 cap_type == type_match[1]
                 tolerance == ParseInt(tolerance_match[1])
                 footprint == footprint_match[1]
                 key == <<voltage, value, cap_type, tolerance, footprint>>
             IN  IF key \notin DOMAIN CAPACITOR_MAP THEN Raise("KeyError")
                 ELSE Return([mpn |-> CAPACITOR_MAP[key],
                              value |-> value,
                              footprint |-> footprint,
                              description |-> value \o <<" ", "PM">> \o IntToStr(tolerance)
                                  \o <<"%", " ">> \o cap_type \o <<" ">> \o footprint
                                  \o <<" ", "c", "a", "p", "a", "c", "i", "t", "o", "r", " ", "(", "M", "L", "C", "C", ")">>,
                              vendor |-> <<"D", "i", "g", "i", "K", "e", "y">>,
                              manufacturer |-> <<"M", "u", "r", "a", "t", "a">>])
        ELSE Raise("ValueError: Invalid capacitor comment")

-----------------------------------------------------------------------------
(* The catalog client *)

\* A reply of the token endpoint: [ok |-> raise_for_status() passes,
\* json |-> [access_token, expires_in]].  A reply of the search endpoint:
\* [status_code, json |-> [ExactMatches, Products]].  A call that finds its
\* cache fresh never looks at the reply.

\* get_digikey_token without the 60 second margin
get_digikey_token_no_margin(file, t, reply) ==
    IF file # <<>> /\ t < file[1].expires_at
    THEN [token_file |-> file, http |-> FALSE,
          result |-> Return(file[1].access_token)]
    ELSE IF ~reply.ok
    THEN [token_file |-> file, http |-> TRUE, result |-> Raise("HTTPError")]
    ELSE LET token_data ==
                 Update(reply.json, [expires_at |-> t + reply.json.expires_in])
         IN  [token_file |-> <<token_data>>, http |-> TRUE,
              result |-> Return(token_data.access_token)]

get_digikey_token(file, t, reply) ==
    IF file # <<>> /\ t < file[1].expires_at - 60
    THEN [token_file |-> file, http |-> FALSE,
          result |-> Return(file[1].access_token)]
    ELSE IF ~reply.ok
    THEN [token_file |-> file, http |-> TRUE, result |-> Raise("HTTPError")]
    ELSE LET token_data ==
                 Update(reply.json, [expires_at |-> t + reply.json.expires_in])
         IN  [token_file |-> <<token_data>>, http |-> TRUE,
              result |-> Return(token_data.access_token)]

\* re.sub(r'[/<>:"\\|?*,]', "_", mpn)
ReplaceInvalid(mpn) ==
    [i \in 1..Len(mpn) |->
        IF mpn[i] \in {"/", "<", ">", ":", "\"", "\\", "|", "?", "*", ","}
        THEN "_" ELSE mpn[i]]

\* re.sub(r"_+", "_", name)
RECURSIVE CollapseUnderscores(_)
CollapseUnderscores(name) ==
    IF Len(name) < 2 THEN name
    ELSE IF name[1] = "_" /\ name[2] = "_" THEN CollapseUnderscores(Tail(name))
    ELSE <<name[1]>> \o CollapseUnderscores(Tail(name))

\* name.strip("_")
StripUnderscores(name) ==
    LET keep == {i \in 1..Len(name) : name[i] # "_"}
    IN  IF keep = {} THEN <<>>
        ELSE SubSeq(name, Min(keep), CHOOSE j \in keep : \A k \in keep : k <= j)

normalize_filename(mpn) ==
    StripUnderscores(CollapseUnderscores(ReplaceInvalid(mpn)))

get_cached_digikey_response(cache, t, url, json_data, reply) ==
    LET mpn == json_data.Keywords
        cache_file == normalize_filename(mpn) \o <<".", "j", "s", "o", "n">>
    IN  IF cache_file \in DOMAIN cache /\ t < cache[cache_file].cached_at + 3600 * 4
        THEN [search_cache |-> cache, http |-> FALSE,
              result |-> Return(cache[cache_file].response)]
        ELSE IF reply.status_code = 200
        THEN LET cache_data ==
                     [response |-> reply.json,
                      cached_at |-> t,
                      request |-> [url |-> url, method |-> "POST",
                                   json_data |-> json_data]]
             IN  [search_cache |-> Update(cache, cache_file :> cache_data),
                  http |-> TRUE, result |-> Return(reply.json)]
        ELSE [search_cache |-> cache, http |-> TRUE,
              result |-> Raise("Exception: API request failed")]

\* LessThan with <= in place of <: a later offer at the same price wins
LessThanOrEqual(x, best_unit_price) == best_unit_price.inf \/ x <= best_unit_price.v

\* x < best_unit_price, which starts as float("inf")
LessThan(x, best_unit_price) == best_unit_price.inf \/ x < best_unit_price.v

\* the loop over variation["StandardPricing"], from its k-th entry on
RECURSIVE PricingLoop(_, _, _, _, _)
PricingLoop(variation, k, order_quantity, best_unit_price, d) ==
    IF k > Len(variation.StandardPricing)
    THEN [best_unit_price |-> best_unit_price, data |-> d]
    ELSE LET pricing == variation.StandardPricing[k]
             break_quantity == pricing.BreakQuantity
             unit_price == pricing.UnitPrice
         IN  IF break_quantity > order_quantity
             THEN PricingLoop(variation, k + 1, order_quantity, best_unit_price, d)
             ELSE IF LessThan(unit_price, best_unit_price)
             THEN PricingLoop(variation, k + 1, order_quantity,
                      [inf |-> FALSE, v |-> unit_price],
                      Update(d, [vendor_part_number |-> variation.DigiKeyProductNumber,
                                 unit_price |-> unit_price,
                                 available |-> variation.QuantityAvailableforPackageType]))
             ELSE PricingLoop(variation, k + 1, order_quantity, best_unit_price, d)

\* the loop over response["ProductVariations"], from its n-th entry on
RECURSIVE VariationLoop(_, _, _, _, _)
VariationLoop(variations, n, order_quantity, best_unit_price, d) ==
    IF n > Len(variations) THEN d
    ELSE LET variation == variations[n]
             available == variation.QuantityAvailableforPackageType
             moq == variation.MinimumOrderQuantity
         IN  IF available = 0 \/ moq > order_quantity
             THEN VariationLoop(variations, n + 1, order_quantity, best_unit_price, d)
             ELSE LET after == PricingLoop(variation, 1, order_quantity,
                                           best_unit_price, d)
                  IN  VariationLoop(variations, n + 1, order_quantity,
                                    after.best_unit_price, after.data)

extract_product_info(response, order_quantity) ==
    LET d == [mpn |-> response.ManufacturerProductNumber,
              description |-> response.Description.ProductDescription,
              manufacturer |-> response.Manufacturer.Name,
              vendor |-> <<"D", "i", "g", "i", "K", "e", "y">>]
        packages == {i \in 1..Len(response.Parameters) :
                        response.Parameters[i].ParameterText
                            = <<"S", "u", "p", "p", "l", "i", "e", "r", " ", "D", "e", "v", "i", "c", "e", " ", "P", "a", "c", "k", "a", "g", "e">>}
        with_footprint ==
            IF packages = {} THEN d
            ELSE Update(d, [footprint |->
                               response.Parameters[Min(packages)].ValueText])
    IN  VariationLoop(response.ProductVariations, 1, order_quantity,
                      [inf |-> TRUE], with_footprint)

\* select_product that takes the first of several products
select_first_product(response, mpn) ==
    IF response.ExactMatches # <<>> THEN Return(response.ExactMatches[1])
    ELSE IF response.Products # <<>> THEN Return(response.Products[1])
    ELSE Raise("Exception: No products found")

\* search_digikey_info from its response on: the product it keeps
select_product(response, mpn) ==
    IF response.ExactMatches # <<>> THEN Return(response.ExactMatches[1])
    ELSE IF response.Products # <<>>
    THEN IF Len(response.Products) > 1
         THEN Raise("Exception: Multiple products found")
         ELSE Return(response.Products[1])
    ELSE Raise("Exception: No products found")

SearchUrl == <<"h", "t", "t", "p", "s", ":", "/", "/", "a", "p", "i", ".", "d", "i", "g", "i", "k", "e", "y", ".", "c", "o", "m", "/", "p", "r", "o", "d", "u", "c", "t", "s", "/", "v", "4", "/", "s", "e", "a", "r", "c", "h", "/", "k", "e", "y", "w", "o", "r", "d">>

\* search_digikey_info against the caches as they are at time t; the replies
\* are what the two endpoints answer if asked.  got is <<>> when the token
\* request raised before any search, else what get_cached_digikey_response did
search_digikey_info(file, cache, t, mpn, order_quantity, token_reply, search_reply) ==
    LET tok == get_digikey_token(file, t, token_reply)
        got == get_cached_digikey_response(cache, t, SearchUrl,
                   [Keywords |-> mpn, Limit |-> 2], search_reply)
        product == select_product(got.result.val, mpn)
    IN  IF Raised(tok.result)
        THEN [token_file |-> tok.token_file, search_cache |-> cache,
              got |-> <<>>, result |-> tok.result]
        ELSE [token_file |-> tok.token_file,
              search_cache |-> got.search_cache,
              got |-> <<got>>,
              result |-> IF Raised(got.result) THEN got.result
                         ELSE IF Raised(product) THEN product
                         ELSE Return(extract_product_info(product.val,
                                                          order_quantity))]

-----------------------------------------------------------------------------
(* The environment: what the catalog may answer and what a BOM may hold *)

MaxRows == 2

MaxAliasRows == 1

MaxVariations == 2

MaxTicks == 3

\* the sequences over S of length at most n
SeqsUpTo(S, n) == UNION {[1..k -> S] : k \in 0..n}

Break(break_quantity, unit_price) ==
    [BreakQuantity |-> break_quantity, UnitPrice |-> unit_price]

Variation(pn, available, moq, pricing) ==
    [DigiKeyProductNumber |-> pn,
     QuantityAvailableforPackageType |-> available,
     MinimumOrderQuantity |-> moq,
     StandardPricing |-> pricing]

Product(mpn, parameters, variations) ==
    [ManufacturerProductNumber |-> mpn,
     Description |-> [ProductDescription |-> <<"p", "a", "r", "t", " ">> \o mpn],
     Manufacturer |-> [Name |-> <<"M", "a", "k", "e", "r">>],
     Parameters |-> parameters,
     ProductVariations |-> variations]

PartA ==
    Product(<<"P", "A">>,
            <<[ParameterText |-> <<"T", "o", "l", "e", "r", "a", "n", "c", "e">>, ValueText |-> <<"1", "%">>],
              [ParameterText |-> <<"S", "u", "p", "p", "l", "i", "e", "r", " ", "D", "e", "v", "i", "c", "e", " ", "P", "a", "c", "k", "a", "g", "e">>, ValueText |-> <<"0", "4", "0", "2">>]>>,
            <<Variation(<<"P", "A", "-", "C", "T">>, 100, 1, <<Break(1, 50), Break(2, 40)>>)>>)

PartB == Product(<<"P", "B">>, <<>>, <<Variation(<<"P", "B", "-", "T", "R">>, 100, 1, <<Break(1, 50)>>)>>)

\* out of stock
PartC == Product(<<"P", "C">>, <<>>, <<Variation(<<"P", "C", "-", "N", "D">>, 0, 1, <<Break(1, 10)>>)>>)

SearchResponse(exact, products) == [ExactMatches |-> exact, Products |-> products]

SearchReplies ==
    {[status_code |-> 200, json |-> SearchResponse(<<PartA>>, <<PartA, PartB>>)],
     [status_code |-> 200, json |-> SearchResponse(<<>>, <<PartB>>)],
     [status_code |-> 200, json |-> SearchResponse(<<PartC>>, <<>>)],
     [status_code |-> 200, json |-> SearchResponse(<<>>, <<PartA, PartB>>)],
     [status_code |-> 200, json |-> SearchResponse(<<>>, <<>>)],
     [status_code |-> 500, json |-> SearchResponse(<<>>, <<>>)]}

\* two successful answers and a failure, for the calls over time
FewSearchReplies ==
    {[status_code |-> 200, json |-> SearchResponse(<<PartA>>, <<>>)],
     [status_code |-> 200, json |-> SearchResponse(<<>>, <<PartB>>)],
     [status_code |-> 500, json |-> SearchResponse(<<>>, <<>>)]}

TokenReply(ok, access_token, expires_in) ==
    [ok |-> ok, json |-> [access_token |-> access_token, expires_in |-> expires_in]]

\* a ten-minute token, a half-minute token, a failure
TokenReplies ==
    {TokenReply(TRUE, <<"t", "o", "k", "A">>, 600),
     TokenReply(TRUE, <<"t", "o", "k", "B">>, 30),
     TokenReply(FALSE, <<>>, 0)}

\* during a run: the ten-minute token or a failure
RunTokenReplies == {TokenReply(TRUE, <<"t", "o", "k", "A">>, 600), TokenReply(FALSE, <<>>, 0)}

BomRow(lcsc, designator, comment) ==
    [LCSC |-> lcsc, Designator |-> designator, Comment |-> comment]

\* two designators; one designator and both Capacitor and Do not populate in
\* a resistor's comment; a capacitor marked Do not populate; a DNI line; a
\* generic line under an alias; a resistor and a capacitor comment that lack
\* fields
BomRows ==
    {BomRow(<<"C", "2", "5", "7", "4", "4">>, <<"R", "1", ",", "R", "2">>, <<"R", "e", "s", "i", "s", "t", "o", "r", " ", "0", "4", "0", "2", " ", "PM", "1", "%", " ", "1", "0", "k", "OHM">>),
     BomRow(<<"C", "2", "5", "9", "0", "0">>, <<"R", "9">>, <<"C", "a", "p", "a", "c", "i", "t", "o", "r", "/", "R", "e", "s", "i", "s", "t", "o", "r", " ", "0", "6", "0", "3", " ", "PM", "1", "%", " ", "1", "k", "OHM", " ", "D", "o", " ", "n", "o", "t", " ", "p", "o", "p", "u", "l", "a", "t", "e">>),
     BomRow(<<"C", "1", "5", "4", "7">>, <<"C", "3">>, <<"C", "a", "p", "a", "c", "i", "t", "o", "r", " ", "5", "0", "V", " ", "1", "8", "p", "F", " ", "C", "0", "G", " ", "PM", "5", "%", " ", "0", "4", "0", "2", " ", "D", "o", " ", "n", "o", "t", " ", "p", "o", "p", "u", "l", "a", "t", "e">>),
     BomRow(<<>>, <<"J", "1", ",", "J", "2">>, <<"D", "o", " ", "n", "o", "t", " ", "p", "o", "p", "u", "l", "a", "t", "e">>),
     BomRow(<<"C", "2", "0", "4", "0">>, <<"U", "1">>, <<"M", "C", "U">>),
     BomRow(<<"C", "2", "5", "7", "4", "4">>, <<"R", "3">>, <<"R", "e", "s", "i", "s", "t", "o", "r", " ", "1", "0", "k", "OHM", " ", "0", "4", "0", "2">>),
     BomRow(<<"C", "1", "5", "2", "5">>, <<"C", "2">>, <<"C", "a", "p", "a", "c", "i", "t", "o", "r", " ", "1", "0", "0", "n", "F", " ", "0", "4", "0", "2">>)}

\* generic rows over every identifier MPN_MAP names, and one it does not
AliasRows ==
    {BomRow(m, <<"U", "1">>, <<"I", "C">>) :
        m \in DOMAIN MPN_MAP \cup {MPN_MAP[k] : k \in DOMAIN MPN_MAP} \cup {<<"X", "Y", "Z">>}}

Boards == {0, 1, 2}

-----------------------------------------------------------------------------
(* parse_bom_row, parse_bom and main *)

\* row_kind with the Do not populate test ahead of the other two
row_kind_dni_first(description) ==
    IF Contains(description, <<"D", "o", " ", "n", "o", "t", " ", "p", "o", "p", "u", "l", "a", "t", "e">>) THEN "dni"
    ELSE IF Contains(description, <<"R", "e", "s", "i", "s", "t", "o", "r">>) THEN "resistor"
    ELSE IF Contains(description, <<"C", "a", "p", "a", "c", "i", "t", "o", "r">>) THEN "capacitor"
    ELSE "generic"

\* the branch parse_bom_row takes on the row's comment
row_kind(description) ==
    IF Contains(description, <<"R", "e", "s", "i", "s", "t", "o", "r">>) THEN "resistor"
    ELSE IF Contains(description, <<"C", "a", "p", "a", "c", "i", "t", "o", "r">>) THEN "capacitor"
    ELSE IF Contains(description, <<"D", "o", " ", "n", "o", "t", " ", "p", "o", "p", "u", "l", "a", "t", "e">>) THEN "dni"
    ELSE "generic"

\* the record parse_bom_row starts from
row_data(r) ==
    [mpn |-> r.LCSC,
     designators |-> r.Designator,
     quantity |-> Len(Split(r.Designator)),
     description |-> r.Comment]

\* data.sort(key=..., reverse=True): the key
sort_key(x) == IF "total_price" \in DOMAIN x THEN x.total_price ELSE 0

\* insert_descending that puts x ahead of the rows placed with the same key, as
\* an ascending sort read backwards does
RECURSIVE insert_descending_ties_reversed(_, _)
insert_descending_ties_reversed(sorted, x) ==
    IF sorted = <<>> THEN <<x>>
    ELSE IF sort_key(Head(sorted)) > sort_key(x)
    THEN <<Head(sorted)>> \o insert_descending_ties_reversed(Tail(sorted), x)
    ELSE <<x>> \o sorted

\* a stable sort keeps x behind the rows already placed whose key is no smaller
RECURSIVE insert_descending(_, _)
insert_descending(sorted, x) ==
    IF sorted = <<>> THEN <<x>>
    ELSE IF sort_key(Head(sorted)) >= sort_key(x)
    THEN <<Head(sorted)>> \o insert_descending(Tail(sorted), x)
    ELSE <<x>> \o sorted

RECURSIVE sort_descending(_)
sort_descending(xs) ==
    IF xs = <<>> THEN <<>>
    ELSE insert_descending(sort_descending(SubSeq(xs, 1, Len(xs) - 1)), xs[Len(xs)])

\* sum(row.get("total_price", 0.0) for row in data)
RECURSIVE sum_total_price(_)
sum_total_price(xs) ==
    IF xs = <<>> THEN 0
    ELSE (IF "total_price" \in DOMAIN Head(xs) THEN Head(xs).total_price ELSE 0)
             + sum_total_price(Tail(xs))

SIERRA_COLUMNS ==
    <<"quantity", "mpn", "designators", "dni", "vendor", "vendor_part_number",
      "value", "footprint", "description", "manufacturer">>

\* one spreadsheet row: row.get(name, "") for each column
sierra_row(r) ==
    [i \in 1..Len(SIERRA_COLUMNS) |->
        IF SIERRA_COLUMNS[i] \in DOMAIN r THEN r[SIERRA_COLUMNS[i]] ELSE <<>>]

Line == Len(data) + 1

\* OrderQuantity without the board count
QuantityPerBoard(d) == d.quantity

\* order_quantity = data["quantity"] * board_quantity
OrderQuantity(d) == d.quantity * board_count

\* an exception leaves parse_bom_row, parse_bom and main
Abort(e) ==
    /\ pc' = "failed"
    /\ error' = <<e>>
    /\ row' = <<>>
    /\ UNCHANGED data

\* the end of parse_bom_row and the row's place in parse_bom's list
EndRow(d) ==
    /\ data' = Append(data,
                   IF "unit_price" \in DOMAIN d
                   THEN Update(d, [total_price |-> d.unit_price * OrderQuantity(d)])
                   ELSE d)
    /\ row' = <<>>
    /\ UNCHANGED <<pc, error>>

\* what the log of fetches holds after a search call
Fetched(mpn, got) ==
    IF got # <<>> /\ got[1].http /\ ~Raised(got[1].result)
    THEN Update(fetch_log, mpn :> [at |-> now, response |-> got[1].result.val])
    ELSE fetch_log

\* data.update(search_digikey_info(data["mpn"], order_quantity)) and then the
\* end of the row, or the exception
SearchAndEnd(d) ==
    \E token_reply \in RunTokenReplies, search_reply \in SearchReplies :
        LET s == search_digikey_info(token_file, search_cache, now, d.mpn,
                     OrderQuantity(d), token_reply, search_reply)
        IN  /\ token_file' = s.token_file
            /\ search_cache' = s.search_cache
            /\ fetch_log' = Fetched(d.mpn, s.got)
            /\ lookups' = Append(lookups,
                   [line |-> Line, keyword |-> d.mpn,
                    response |-> IF s.got # <<>> /\ ~Raised(s.got[1].result)
                                 THEN <<s.got[1].result.val>> ELSE <<>>])
            /\ IF Raised(s.result) THEN Abort(s.result.exc)
               ELSE EndRow(Update(d, s.result.val))

NextRow ==
    /\ pc = "parse_bom"
    /\ row = <<>>
    /\ Line <= Len(bom)

NoSearch == UNCHANGED <<token_file, search_cache, fetch_log, lookups>>

Frame == UNCHANGED <<now, ticks, call, bom, board_count, table,
                     total_price, sierra, arg, ret>>

ResistorRow ==
    /\ NextRow
    /\ row_kind(bom[Line].Comment) = "resistor"
    /\ LET d == row_data(bom[Line])
           parsed == parse_resistor_comment(d.description)
       IN  IF Raised(parsed) THEN Abort(parsed.exc) /\ NoSearch
           ELSE SearchAndEnd(Update(d, parsed.val))
    /\ Frame

CapacitorRow ==
    /\ NextRow
    /\ row_kind(bom[Line].Comment) = "capacitor"
    /\ LET d == row_data(bom[Line])
           parsed == parse_capacitor_comment(d.description)
       IN  IF Raised(parsed) THEN Abort(parsed.exc) /\ NoSearch
           ELSE SearchAndEnd(Update(d, parsed.val))
    /\ Frame

DniRow ==
    /\ NextRow
    /\ row_kind(bom[Line].Comment) = "dni"
    /\ EndRow(Update(row_data(bom[Line]),
                     [mpn |-> <<"D", "N", "I">>, dni |-> <<"D", "N", "I">>,
                      description |-> <<"D", "o", " ", "n", "o", "t", " ", "i", "n", "s", "t", "a", "l", "l">>]))
    /\ NoSearch
    /\ Frame

\* a generic row reaches the while loop over MPN_MAP
GenericRow ==
    /\ NextRow
    /\ row_kind(bom[Line].Comment) = "generic"
    /\ row' = <<row_data(bom[Line])>>
    /\ UNCHANGED <<pc, error, data>>
    /\ NoSearch
    /\ Frame

\* one turn of: while data["mpn"] in MPN_MAP
AliasStep ==
    /\ pc = "parse_bom"
    /\ row # <<>>
    /\ row[1].mpn \in DOMAIN MPN_MAP
    /\ row' = <<Update(row[1], [mpn |-> MPN_MAP[row[1].mpn]])>>
    /\ UNCHANGED <<pc, error, data>>
    /\ NoSearch
    /\ Frame

\* the loop ends and the row is searched
GenericSearch ==
    /\ pc = "parse_bom"
    /\ row # <<>>
    /\ row[1].mpn \notin DOMAIN MPN_MAP
    /\ SearchAndEnd(row[1])
    /\ Frame

\* main after parse_bom: the sort, the console table, the total, and the
\* spreadsheet when --sierra names a file
Report ==
    /\ pc = "parse_bom"
    /\ row = <<>>
    /\ Line > Len(bom)
    /\ LET sorted == sort_descending(data)
       IN  /\ table' = <<sorted>>
           /\ IF board_count = 0
              THEN /\ pc' = "failed"
                   /\ error' = <<"ZeroDivisionError">>
                   /\ UNCHANGED <<total_price, sierra>>
              ELSE /\ pc' = "done"
                   /\ total_price' = <<sum_total_price(sorted)>>
                   /\ \E sierra_arg \in BOOLEAN :
                          sierra' = IF sierra_arg
                                    THEN <<[i \in 1..Len(sorted) |->
                                               sierra_row(sorted[i])]>>
                                    ELSE <<>>
                   /\ UNCHANGED error
    /\ UNCHANGED <<now, ticks, token_file, search_cache, fetch_log, call, bom,
                   board_count, row, data, lookups, arg, ret>>

-----------------------------------------------------------------------------
(* One run of main over a BOM *)

NoCaches ==
    /\ now = 0
    /\ ticks = 0
    /\ token_file = <<>>
    /\ search_cache = <<>>
    /\ fetch_log = <<>>
    /\ call = <<>>

NoRun ==
    /\ pc = "idle"
    /\ bom = <<>>
    /\ board_count = 1
    /\ row = <<>>
    /\ data = <<>>
    /\ lookups = <<>>
    /\ table = <<>>
    /\ total_price = <<>>
    /\ sierra = <<>>
    /\ error = <<>>

NoFunction == arg = <<>> /\ ret = <<>>

RunOver(rows, n) ==
    /\ pc = "parse_bom"
    /\ bom \in SeqsUpTo(rows, n)
    /\ board_count \in Boards
    /\ row = <<>>
    /\ data = <<>>
    /\ lookups = <<>>
    /\ table = <<>>
    /\ total_price = <<>>
    /\ sierra = <<>>
    /\ error = <<>>

Init == NoCaches /\ RunOver(BomRows, MaxRows) /\ NoFunction

InitAlias == NoCaches /\ RunOver(AliasRows, MaxAliasRows) /\ NoFunction

Next ==
    \/ ResistorRow
    \/ CapacitorRow
    \/ DniRow
    \/ GenericRow
    \/ AliasStep
    \/ GenericSearch
    \/ Report

Spec == Init /\ [][Next]_vars

NextAlias == GenericRow \/ AliasStep \/ GenericSearch \/ Report

SpecAlias == InitAlias /\ [][NextAlias]_vars

-----------------------------------------------------------------------------
(* The two caches over time: calls of the client at any moment *)

Keywords == {<<"A", "/", "B">>, <<"A", "_", "B">>}

Steps == {540, 3600 * 4}

RunFrame == UNCHANGED <<pc, bom, board_count, row, data, lookups,
                        table, total_price, sierra, error, arg, ret>>

Tick ==
    /\ ticks < MaxTicks
    /\ ticks' = ticks + 1
    /\ \E d \in Steps : now' = now + d
    /\ UNCHANGED <<token_file, search_cache, fetch_log, call>>
    /\ RunFrame

CallGetToken ==
    /\ \E reply \in TokenReplies :
           LET tok == get_digikey_token(token_file, now, reply)
           IN  /\ token_file' = tok.token_file
               /\ call' = <<[fn |-> "get_digikey_token", at |-> now,
                             before |-> token_file, http |-> tok.http,
                             reply |-> IF tok.http THEN <<reply>> ELSE <<>>,
                             result |-> tok.result]>>
    /\ UNCHANGED <<now, ticks, search_cache, fetch_log>>
    /\ RunFrame

CallGetCached ==
    /\ \E mpn \in Keywords, reply \in FewSearchReplies :
           LET got == get_cached_digikey_response(search_cache, now, SearchUrl,
                          [Keywords |-> mpn, Limit |-> 2], reply)
           IN  /\ search_cache' = got.search_cache
               /\ fetch_log' = Fetched(mpn, <<got>>)
               /\ call' = <<[fn |-> "get_cached_digikey_response", at |-> now,
                             keyword |-> mpn, before |-> search_cache,
                             fetched |-> fetch_log, http |-> got.http,
                             result |-> got.result]>>
    /\ UNCHANGED <<now, ticks, token_file>>
    /\ RunFrame


InitCaches == NoCaches /\ NoRun /\ NoFunction

NextToken == CallGetToken \/ Tick

SpecToken == InitCaches /\ [][NextToken]_vars

NextCache == CallGetCached \/ Tick

SpecCache == InitCaches /\ [][NextCache]_vars

-----------------------------------------------------------------------------
(* The functions on their own: extract_product_info and the comment parsers *)

\* offers: stock and minimum order quantity, and the price breaks
Stocks == {[available |-> 0, moq |-> 1], [available |-> 7, moq |-> 1],
           [available |-> 7, moq |-> 10]}

PricingLists ==
    {<<>>,
     <<Break(1, 5)>>,
     <<Break(10, 3)>>,
     <<Break(1, 5), Break(10, 3)>>,
     <<Break(10, 3), Break(1, 5)>>,
     <<Break(1, 3), Break(10, 3)>>,
     <<Break(1, 5), Break(10, 5)>>}

Offers == Stocks \X PricingLists

\* a product whose n-th variation carries the part number PN-n
ProductOf(offers) ==
    Product(<<"X">>, <<>>,
            [n \in 1..Len(offers) |->
                Variation(<<"P", "N", "-">> \o IntToStr(n), offers[n][1].available,
                          offers[n][1].moq, offers[n][2])])

OrderQuantities == {0, 1, 10}

ExtractArgs ==
    {[fn |-> "extract_product_info", response |-> ProductOf(offers),
      order_quantity |-> q] :
        offers \in SeqsUpTo(Offers, MaxVariations), q \in OrderQuantities}

\* resistor comments written from a value and a footprint, in two layouts
ResistorValues == DOMAIN RESISTOR_VALUE_MAP_ERJ \cup {<<"2", "k", "OHM">>}

ResistorFootprints == {<<"0", "4", "0", "2">>, <<"0", "6", "0", "3">>, <<"0", "8", "0", "5">>}

ResistorArgs ==
    {[fn |-> "parse_resistor_comment", value |-> v, footprint |-> f,
      comment |-> <<"R", "e", "s", "i", "s", "t", "o", "r", " ">> \o f \o <<" ", "PM", "1", "%", " ">> \o v] :
        v \in ResistorValues, f \in ResistorFootprints}
    \cup
    {[fn |-> "parse_resistor_comment", value |-> v, footprint |-> f,
      comment |-> <<"PM", "1", "%", " ">> \o v \o <<" ">> \o f \o <<" ", "T", "h", "i", "c", "k", " ", "F", "i", "l", "m", " ", "R", "e", "s", "i", "s", "t", "o", "r", "s">>] :
        v \in ResistorValues, f \in ResistorFootprints}

\* capacitor comments written from the five fields; a voltage and a
\* tolerance are given as written and as the number written
Voltages ==
    {[text |-> <<"1", "6">>, number |-> Decimal(16, 0)],
     [text |-> <<"1", "6", ".", "0">>, number |-> Decimal(16, 0)],
     [text |-> <<"6", ".", "3">>, number |-> Decimal(63, 1)],
     [text |-> <<"2", "5">>, number |-> Decimal(25, 0)],
     [text |-> <<"5", "0">>, number |-> Decimal(50, 0)]}

Tolerances ==
    {[text |-> <<"5">>, number |-> 5], [text |-> <<"1", "0">>, number |-> 10],
     [text |-> <<"2", "0">>, number |-> 20]}

CapacitorArgs ==
    {[fn |-> "parse_capacitor_comment", voltage |-> u, value |-> v,
      dielectric |-> t, tolerance |-> p, footprint |-> f,
      comment |-> <<"C", "a", "p", "a", "c", "i", "t", "o", "r", " ">> \o u.text \o <<"V", " ">> \o v \o <<" ">> \o t
                      \o <<" ", "PM">> \o p.text \o <<"%", " ">> \o f] :
        u \in Voltages,
        v \in {<<"1", "0", "0", "n", "F">>, <<"2", ".", "2", "u", "F">>, <<"1", "2", "n", "F">>, <<"1", "8", "p", "F">>, <<"2", "0", "p", "F">>, <<"1", "u", "F">>, <<"4", ".", "7", "n", "F">>},
        t \in {<<"X", "7", "R">>, <<"X", "5", "R">>, <<"C", "0", "G">>},
        p \in Tolerances,
        f \in {<<"0", "4", "0", "2">>, <<"0", "8", "0", "5">>}}

InitFunctions ==
    /\ NoCaches
    /\ NoRun
    /\ ret = <<>>
    /\ \/ arg \in ExtractArgs
       \/ arg \in ResistorArgs
       \/ arg \in CapacitorArgs

FunctionFrame == UNCHANGED <<now, ticks, token_file, search_cache, fetch_log, call,
                             pc, bom, board_count, row, data, lookups,
                             table, total_price, sierra, error, arg>>

ApplyExtract ==
    /\ ret = <<>>
    /\ arg.fn = "extract_product_info"
    /\ ret' = <<extract_product_info(arg.response, arg.order_quantity)>>
    /\ FunctionFrame

ApplyParseResistor ==
    /\ ret = <<>>
    /\ arg.fn = "parse_resistor_comment"
    /\ ret' = <<parse_resistor_comment(arg.comment)>>
    /\ FunctionFrame

ApplyParseCapacitor ==
    /\ ret = <<>>
    /\ arg.fn = "parse_capacitor_comment"
    /\ ret' = <<parse_capacitor_comment(arg.comment)>>
    /\ FunctionFrame

NextFunctions == ApplyExtract \/ ApplyParseResistor \/ ApplyParseCapacitor

SpecFunctions == InitFunctions /\ [][NextFunctions]_vars

-----------------------------------------------------------------------------
(* Properties *)

\* the sum of f(1) .. f(n)
RECURSIVE SumTo(_, _)
SumTo(f(_), n) == IF n = 0 THEN 0 ELSE SumTo(f, n - 1) + f(n)

C5_ParsedIdentifier ==
    /\ (/\ ret # <<>>
        /\ arg.fn = "parse_resistor_comment"
        /\ arg.value \in DOMAIN RESISTOR_VALUE_MAP_ERJ
        /\ arg.footprint \in DOMAIN RESISTOR_FOOTPRINT_MAP_ERJ)
           => /\ ~Raised(ret[1])
              /\ ret[1].val.mpn = RESISTOR_FOOTPRINT_MAP_ERJ[arg.footprint]
                                      \o RESISTOR_VALUE_MAP_ERJ[arg.value]
                                      \o RESISTOR_FOOTPRINT_MAP_ERJ_SUFFIX[arg.footprint]
    /\ (ret # <<>> /\ arg.fn = "parse_capacitor_comment") =>
           LET key == <<arg.voltage.number, arg.value, arg.dielectric,
                        arg.tolerance.number, arg.footprint>>
           IN  IF key \in DOMAIN CAPACITOR_MAP
               THEN ~Raised(ret[1]) /\ ret[1].val.mpn = CAPACITOR_MAP[key]
               ELSE Raised(ret[1])

\* C5's case: the 26.1 ohm 0603 resistor has been parsed
C5_Witness ==
    /\ ret # <<>>
    /\ arg.fn = "parse_resistor_comment"
    /\ arg.comment = <<"PM", "1", "%", " ", "2", "6", ".", "1", "OHM", " ", "0", "6", "0", "3", " ", "T", "h", "i", "c", "k", " ", "F", "i", "l", "m", " ", "R", "e", "s", "i", "s", "t", "o", "r", "s">>
    /\ ret[1] = Return([mpn |-> <<"E", "R", "J", "-", "3", "E", "K", "F", "2", "6", "R", "1", "V">>,
                        value |-> <<"2", "6", ".", "1", "OHM">>,
                        footprint |-> <<"0", "6", "0", "3">>,
                        description |->
                            <<"2", "6", ".", "1", "OHM", " ", "PM", "1", "%", " ", "0", "6", "0", "3", " ", "t", "h", "i", "c", "k", " ", "f", "i", "l", "m", " ", "r", "e", "s", "i", "s", "t", "o", "r", " ", "0", ".", "1", "W", " ", "5", "0", "V", " ", "PM", "1", "0", "0", "p", "p", "m", "/", "C">>,
                        vendor |-> <<"D", "i", "g", "i", "K", "e", "y">>,
                        manufacturer |-> <<"P", "a", "n", "a", "s", "o", "n", "i", "c", " ", "E", "l", "e", "c", "t", "r", "o", "n", "i", "c", " ", "C", "o", "m", "p", "o", "n", "e", "n", "t", "s">>])

\* C2: once the table is printed there is one record per BOM line, and the
\* printed rows are those records rearranged: by non-increasing total price, a
\* record without one counting as 0, and in BOM order among equal totals.
C2_RowsSortedStable ==
    table # <<>> =>
        LET rows == table[1]
            n == Len(bom)
            key(x) == IF "total_price" \in DOMAIN x THEN x.total_price ELSE 0
        IN  /\ Len(data) = n
            /\ Len(rows) = n
            /\ \A i \in 1..n : data[i].designators = bom[i].Designator
            /\ \E p \in Permutations(1..n) :
                   /\ \A i \in 1..n : rows[i] = data[p[i]]
                   /\ \A i, j \in 1..n :
                          i < j => /\ key(rows[i]) >= key(rows[j])
                                   /\ key(rows[i]) = key(rows[j]) => p[i] < p[j]

\* C2's case: a finished run whose two lines have the same total price and
\* different records, with the later line not the one printed first
C2_Witness ==
    /\ pc = "done"
    /\ Len(data) = 2
    /\ "total_price" \in DOMAIN data[1]
    /\ "total_price" \in DOMAIN data[2]
    /\ data[1].total_price = data[2].total_price
    /\ data[1].total_price > 0
    /\ data[1] # data[2]
    /\ table[1] = data

\* C3: the total printed is the sum over the BOM lines of unit price x number
\* of comma-separated designators x board count, a line without a unit price
\* adding 0; the sum runs in BOM order while the code adds in printed order.
C3_TotalIsSumOfLines ==
    total_price # <<>> =>
        LET designators(i) ==
                Cardinality({k \in 1..Len(bom[i].Designator) :
                                bom[i].Designator[k] = ","}) + 1
            lineTotal(i) ==
                IF "unit_price" \in DOMAIN data[i]
                THEN data[i].unit_price * designators(i) * board_count
                ELSE 0
        IN  /\ Len(data) = Len(bom)
            /\ total_price[1] = SumTo(lineTotal, Len(bom))

\* C3's case: two boards, a priced line of two designators and a line
\* without a price
C3_Witness ==
    /\ pc = "done"
    /\ board_count = 2
    /\ Len(data) = 2
    /\ data[1].mpn = <<"D", "N", "I">>
    /\ data[2].quantity = 2
    /\ "unit_price" \in DOMAIN data[2]
    /\ data[2].unit_price = 40
    /\ total_price = <<160>>

\* C4: a response with no exact match and no product, or with no exact match
\* and several products, and a resistor or capacitor comment that lacks a
\* field each end the run: the failing line and the lines after it are never
\* collected, nothing is printed or saved, and nothing runs afterwards.
C4_FailureAbortsRun ==
    LET lacksField(i) ==
            LET c == bom[i].Comment
            IN  IF Contains(c, <<"R", "e", "s", "i", "s", "t", "o", "r">>)
                THEN \/ Search(c, ResistorValueAt) = <<>>
                     \/ Search(c, FootprintAt) = <<>>
                ELSE /\ Contains(c, <<"C", "a", "p", "a", "c", "i", "t", "o", "r">>)
                     /\ \/ Search(c, VoltageAt) = <<>>
                        \/ Search(c, CapValueAt) = <<>>
                        \/ Search(c, CapTypeAt) = <<>>
                        \/ Search(c, ToleranceAt) = <<>>
                        \/ Search(c, FootprintAt) = <<>>
        noMatch(l) ==
            /\ l.response # <<>>
            /\ l.response[1].ExactMatches = <<>>
            /\ Len(l.response[1].Products) # 1
    IN  /\ \A k \in 1..Len(lookups) :
               noMatch(lookups[k]) =>
                   /\ pc = "failed"
                   /\ k = Len(lookups)
                   /\ Len(data) < lookups[k].line
                   /\ error = IF lookups[k].response[1].Products = <<>>
                              THEN <<"Exception: No products found">>
                              ELSE <<"Exception: Multiple products found">>
        /\ \A i \in 1..Len(bom) :
               lacksField(i) =>
                   /\ Len(data) < i
                   /\ pc # "done"
                   /\ (pc = "failed" /\ Len(data) = i - 1) =>
                          error = IF Contains(bom[i].Comment, <<"R", "e", "s", "i", "s", "t", "o", "r">>)
                                  THEN <<"ValueError: Invalid resistor comment">>
                                  ELSE <<"ValueError: Invalid capacitor comment">>
        /\ (pc = "failed") = (error # <<>>)
        /\ (pc = "failed" /\ error # <<"ZeroDivisionError">>) =>
               /\ Len(data) < Len(bom)
               /\ \A k \in 1..Len(lookups) : lookups[k].line <= Len(data) + 1
               /\ table = <<>>
               /\ total_price = <<>>
               /\ sierra = <<>>
        /\ pc = "failed" => ~ENABLED Next

\* C4's case: the second of two lines got an ambiguous answer after the
\* first was collected
C4_Witness ==
    /\ pc = "failed"
    /\ error = <<"Exception: Multiple products found">>
    /\ Len(bom) = 2
    /\ Len(data) = 1
    /\ Len(lookups) = 2
    /\ table = <<>>

\* C8: a collected line was handled by the first rule its comment meets, in
\* the order Resistor, Capacitor, Do not populate, generic.  A DNI line has
\* identifier and flag DNI, no search and no price.  Any other line has no DNI
\* flag and exactly one search, which for a resistor or capacitor line, Do not
\* populate in its comment or not, asks for the identifier parsed from it.
C8_RowClassification ==
    \A i \in 1..Len(data) :
        LET c == bom[i].Comment
            d == data[i]
            searches == {k \in 1..Len(lookups) : lookups[k].line = i}
            keyword == lookups[CHOOSE k \in searches : TRUE].keyword
        IN  IF Contains(c, <<"R", "e", "s", "i", "s", "t", "o", "r">>)
            THEN /\ "dni" \notin DOMAIN d
                 /\ Cardinality(searches) = 1
                 /\ keyword = parse_resistor_comment(c).val.mpn
                 /\ d.value = parse_resistor_comment(c).val.value
            ELSE IF Contains(c, <<"C", "a", "p", "a", "c", "i", "t", "o", "r">>)
            THEN /\ "dni" \notin DOMAIN d
                 /\ Cardinality(searches) = 1
                 /\ keyword = parse_capacitor_comment(c).val.mpn
                 /\ d.value = parse_capacitor_comment(c).val.value
            ELSE IF Contains(c, <<"D", "o", " ", "n", "o", "t", " ", "p", "o", "p", "u", "l", "a", "t", "e">>)
            THEN /\ d.mpn = <<"D", "N", "I">>
                 /\ d.dni = <<"D", "N", "I">>
                 /\ d.description = <<"D", "o", " ", "n", "o", "t", " ", "i", "n", "s", "t", "a", "l", "l">>
                 /\ searches = {}
                 /\ DOMAIN d \cap {"unit_price", "total_price"} = {}
            ELSE /\ "dni" \notin DOMAIN d
                 /\ Cardinality(searches) = 1

\* C8's case: a resistor line marked Do not populate was priced, next to a
\* DNI line
C8_Witness ==
    /\ Len(data) = 2
    /\ bom[1].Comment = <<"C", "a", "p", "a", "c", "i", "t", "o", "r", "/", "R", "e", "s", "i", "s", "t", "o", "r", " ", "0", "6", "0", "3", " ", "PM", "1", "%", " ", "1", "k", "OHM", " ", "D", "o", " ", "n", "o", "t", " ", "p", "o", "p", "u", "l", "a", "t", "e">>
    /\ "total_price" \in DOMAIN data[1]
    /\ lookups[1].keyword = <<"E", "R", "J", "-", "3", "E", "K", "F", "1", "0", "0", "1", "V">>
    /\ bom[2].Comment = <<"D", "o", " ", "n", "o", "t", " ", "p", "o", "p", "u", "l", "a", "t", "e">>
    /\ data[2].dni = <<"D", "N", "I">>
    /\ Len(lookups) = 1

\* where n turns of the loop over MPN_MAP take the identifier m
RECURSIVE AfterTurns(_, _)
AfterTurns(n, m) ==
    IF n = 0 THEN m
    ELSE LET p == AfterTurns(n - 1, m)
         IN  IF p \in DOMAIN MPN_MAP THEN MPN_MAP[p] ELSE p

\* C9: the while loop over MPN_MAP ends from every identifier, within as many
\* turns as the map has keys, and the keyword searched for a generic line is
\* where the line's identifier ends up: not a key of MPN_MAP, the identifier
\* itself when it is no key, SC0914(13) for C2040 and ECS-2333-120-BN-TR for
\* C9002.
C9_AliasResolution ==
    LET turns == Cardinality(DOMAIN MPN_MAP)
    IN  /\ row # <<>> =>
               \E n \in 0..turns : AfterTurns(n, row[1].mpn) \notin DOMAIN MPN_MAP
        /\ \A k \in 1..Len(lookups) :
               LET start == bom[lookups[k].line].LCSC
                   keyword == lookups[k].keyword
               IN  /\ keyword \notin DOMAIN MPN_MAP
                   /\ start \notin DOMAIN MPN_MAP => keyword = start
                   /\ start \in DOMAIN MPN_MAP =>
                          \E n \in 1..turns : keyword = AfterTurns(n, start)
                   /\ start = <<"C", "2", "0", "4", "0">> => keyword = <<"S", "C", "0", "9", "1", "4", "(", "1", "3", ")">>
                   /\ start = <<"C", "9", "0", "0", "2">> => keyword = <<"E", "C", "S", "-", "2", "3", "3", "3", "-", "1", "2", "0", "-", "B", "N", "-", "T", "R">>

\* C9's case: the line C2040 was searched as SC0914(13)
C9_Witness ==
    /\ Len(lookups) = 1
    /\ bom[1].LCSC = <<"C", "2", "0", "4", "0">>
    /\ lookups[1].keyword = <<"S", "C", "0", "9", "1", "4", "(", "1", "3", ")">>
    /\ Len(data) = 1
    /\ data[1].designators = <<"U", "1">>

\* C7 as amended: get_digikey_token answers from the cache, with no request,
\* exactly when a token file exists and the time is strictly before its
\* expires_at - 60, so a token served from the cache has more than 60 seconds
\* left; otherwise it asks for a token and, unless the request fails, stores
\* the answer with expires_at = the time of the call + expires_in and returns
\* the token of the answer, however short-lived.
C7_TokenCacheWithMargin ==
    (call # <<>> /\ call[1].fn = "get_digikey_token") =>
        LET c == call[1]
            fresh == c.before # <<>> /\ c.at < c.before[1].expires_at - 60
        IN  /\ c.http = ~fresh
            /\ fresh => /\ c.result = Return(c.before[1].access_token)
                        /\ token_file = c.before
                        /\ c.before[1].expires_at - c.at > 60
            /\ (~fresh /\ ~Raised(c.result)) =>
                   /\ token_file # <<>>
                   /\ token_file[1].access_token = c.reply[1].json.access_token
                   /\ token_file[1].expires_in = c.reply[1].json.expires_in
                   /\ token_file[1].expires_at = c.at + c.reply[1].json.expires_in
                   /\ c.result = Return(c.reply[1].json.access_token)
            /\ (~fresh /\ Raised(c.result)) => token_file = c.before

\* C7's case: at the last second before the margin the cached token is served,
\* and exactly at expires_at - 60 a new one is requested
C7_Witness ==
    /\ call # <<>>
    /\ call[1].fn = "get_digikey_token"
    /\ call[1].before # <<>>
    /\ call[1].before[1].expires_in = 600
    /\ call[1].at = call[1].before[1].expires_at - 60
    /\ call[1].http
    /\ ~Raised(call[1].result)
    /\ token_file[1].expires_at = call[1].at + token_file[1].expires_in

\* C7 as stated: in addition, no token returned, new or cached, is within 60
\* seconds of its expiry.
C7_NeverWithinMargin ==
    (call # <<>> /\ call[1].fn = "get_digikey_token") =>
        LET c == call[1]
            fresh == c.before # <<>> /\ c.at < c.before[1].expires_at - 60
        IN  /\ c.http = ~fresh
            /\ fresh => c.result = Return(c.before[1].access_token)
            /\ (~fresh /\ ~Raised(c.result)) =>
                   /\ token_file[1].expires_at = c.at + c.reply[1].json.expires_in
                   /\ c.result = Return(c.reply[1].json.access_token)
            /\ ~Raised(c.result) => c.at < token_file[1].expires_at - 60

\* C6: when the keyword's last fetch that reached the server succeeded at time
\* t, a lookup before t + 4h makes no request and returns that response; a
\* lookup at or after t + 4h makes a request, which on success replaces the
\* entry, stamped with the time of the call, and on failure raises and leaves
\* the cache as it was.
C6_FourHourExpiry ==
    (call # <<>> /\ call[1].fn = "get_cached_digikey_response"
        /\ call[1].keyword \in DOMAIN call[1].fetched) =>
        LET c == call[1]
            last == c.fetched[c.keyword]
            cache_file == normalize_filename(c.keyword) \o <<".", "j", "s", "o", "n">>
        IN  IF c.at < last.at + 4 * 3600
            THEN /\ ~c.http
                 /\ c.result = Return(last.response)
                 /\ search_cache = c.before
            ELSE /\ c.http
                 /\ ~Raised(c.result) =>
                        /\ search_cache[cache_file].response = c.result.val
                        /\ search_cache[cache_file].cached_at = c.at
                 /\ Raised(c.result) => search_cache = c.before

\* C10: a response returned from the cache for a keyword was fetched with
\* that keyword.
C10_CacheKeyedByKeyword ==
    (call # <<>> /\ call[1].fn = "get_cached_digikey_response" /\ ~call[1].http) =>
        LET c == call[1]
            cache_file == normalize_filename(c.keyword) \o <<".", "j", "s", "o", "n">>
        IN  c.before[cache_file].request.json_data.Keywords = c.keyword

=============================================================================
